---------------------------- MODULE Spec2Model ----------------------------
(***************************************************************************)
(* A model of the Kalman filter of src/KalmanFilter.py and of the mouse    *)
(* tracking window that drives it (src/kalman_filter.py,                   *)
(* src/tkanimation.py).                                                    *)
(*                                                                         *)
(* Numbers.  A Python/numpy float is modelled as an exact rational         *)
(* <<num, den>> (den > 0, lowest terms): rounding error is abstracted      *)
(* away, so an "approximately equal" of the documentation reads as an      *)
(* equality of rationals.  numpy's shape rules (np.dot / np.matmul         *)
(* alignment, broadcasting of + and -, inv's LinAlgError) are modelled as  *)
(* the library implements them.                                            *)
(*                                                                         *)
(* Arrays.  A 1-D array is a sequence of rationals, a 2-D array a sequence *)
(* of rows.  A Python attribute is the record nd(a) holding an array, or   *)
(* None.                                                                   *)
(***************************************************************************)
EXTENDS Integers, Sequences, FiniteSets, TLC

(***************************************************************************)
(* Exact rational arithmetic (the float arithmetic of numpy).              *)
(***************************************************************************)
Abs(i) == IF i < 0 THEN -i ELSE i

RECURSIVE Gcd(_, _)
Gcd(a, b) == IF b = 0 THEN a ELSE Gcd(b, a % b)

Rat(n, d) ==
    LET g == Gcd(Abs(n), Abs(d))
        s == IF d < 0 THEN -1 ELSE 1
    IN  <<s * (n \div g), s * (d \div g)>>

RInt(i) == <<i, 1>>

RAdd(p, q) ==
    LET g == Gcd(p[2], q[2])
    IN  Rat(p[1] * (q[2] \div g) + q[1] * (p[2] \div g), (p[2] \div g) * q[2])

RNeg(p) == <<-p[1], p[2]>>

RSub(p, q) == RAdd(p, RNeg(q))

RMul(p, q) ==
    LET g1 == Gcd(Abs(p[1]), q[2])
        g2 == Gcd(Abs(q[1]), p[2])
    IN  <<(p[1] \div g1) * (q[1] \div g2), (p[2] \div g2) * (q[2] \div g1)>>

RDiv(p, q) == RMul(p, IF q[1] < 0 THEN <<-q[2], -q[1]>> ELSE <<q[2], q[1]>>)

\* int(v): conversion of a float to an integer truncates toward zero.
RTrunc(p) == RInt(IF p[1] < 0 THEN -((-p[1]) \div p[2]) ELSE p[1] \div p[2])

(***************************************************************************)
(* Linear algebra on arrays of matching shape.                             *)
(***************************************************************************)
Rows(M) == Len(M)

Cols(M) == IF Len(M) = 0 THEN 0 ELSE Len(M[1])

RECURSIVE SumTo(_, _)
SumTo(f, n) == IF n = 0 THEN RInt(0) ELSE RAdd(SumTo(f, n - 1), f[n])

MatVec(M, v) ==
    [i \in 1..Rows(M) |-> SumTo([k \in 1..Len(v) |-> RMul(M[i][k], v[k])], Len(v))]

MatMul(M, N) ==
    [i \in 1..Rows(M) |->
        [j \in 1..Cols(N) |->
            SumTo([k \in 1..Rows(N) |-> RMul(M[i][k], N[k][j])], Rows(N))]]

\* M.T
T(M) == [j \in 1..Cols(M) |-> [i \in 1..Rows(M) |-> M[i][j]]]

\* np.eye(n)
np_eye(n) == [i \in 1..n |-> [j \in 1..n |-> RInt(IF i = j THEN 1 ELSE 0)]]

\* M with row r and column c removed.
Minor(M, r, c) ==
    [i \in 1..(Rows(M) - 1) |->
        [j \in 1..(Cols(M) - 1) |->
            M[IF i < r THEN i ELSE i + 1][IF j < c THEN j ELSE j + 1]]]

RECURSIVE Det(_)
Det(M) ==
    IF Rows(M) = 0 THEN RInt(1)
    ELSE IF Rows(M) = 1 THEN M[1][1]
    ELSE SumTo([j \in 1..Cols(M) |->
                   RMul(IF j % 2 = 1 THEN M[1][j] ELSE RNeg(M[1][j]),
                        Det(Minor(M, 1, j)))], Cols(M))

\* The inverse of a square matrix of non-zero determinant.
MatInv(M) ==
    LET d == Det(M)
    IN  [i \in 1..Rows(M) |->
            [j \in 1..Cols(M) |->
                RDiv(IF (i + j) % 2 = 0 THEN Det(Minor(M, j, i))
                                          ELSE RNeg(Det(Minor(M, j, i))), d)]]

(***************************************************************************)
(* Python values and results.                                              *)
(***************************************************************************)
None == [tag |-> "None", a |-> <<>>]

nd(a) == [tag |-> "ndarray", a |-> a]

\* The result of evaluating an expression: a value, or a raised exception.
Ok(a) == [exc |-> "none", a |-> a]

Raise(e) == [exc |-> e, a |-> <<>>]

Max(a, b) == IF a >= b THEN a ELSE b

(***************************************************************************)
(* numpy operations, with their shape checks.                              *)
(***************************************************************************)
\* np.dot(M, v), M 2-D and v 1-D: the last axis of M must match v.
np_dot(M, v) ==
    IF Cols(M) # Len(v) THEN Raise("ValueError") ELSE Ok(MatVec(M, v))

\* np.matmul(M, N), both 2-D.
np_matmul(M, N) ==
    IF Cols(M) # Rows(N) THEN Raise("ValueError") ELSE Ok(MatMul(M, N))

\* Two axis lengths broadcast when they are equal or one of them is 1.
Broadcastable(a, b) == a = b \/ a = 1 \/ b = 1

\* u (+|-) v for 1-D arrays, with broadcasting.
\* op is "add" or "sub".
REl(op, p, q) == IF op = "add" THEN RAdd(p, q) ELSE RSub(p, q)

np_ew1(u, v, op) ==
    IF ~Broadcastable(Len(u), Len(v)) THEN Raise("ValueError")
    ELSE Ok([i \in 1..Max(Len(u), Len(v)) |->
                REl(op, u[IF Len(u) = 1 THEN 1 ELSE i],
                        v[IF Len(v) = 1 THEN 1 ELSE i])])

np_add1(u, v) == np_ew1(u, v, "add")

np_sub1(u, v) == np_ew1(u, v, "sub")

\* M (+|-) N for 2-D arrays, with broadcasting.
np_ew2(M, N, op) ==
    IF ~(Broadcastable(Rows(M), Rows(N)) /\ Broadcastable(Cols(M), Cols(N)))
    THEN Raise("ValueError")
    ELSE Ok([i \in 1..Max(Rows(M), Rows(N)) |->
                [j \in 1..Max(Cols(M), Cols(N)) |->
                    REl(op,
                        M[IF Rows(M) = 1 THEN 1 ELSE i][IF Cols(M) = 1 THEN 1 ELSE j],
                        N[IF Rows(N) = 1 THEN 1 ELSE i][IF Cols(N) = 1 THEN 1 ELSE j])]])

np_add2(M, N) == np_ew2(M, N, "add")

np_sub2(M, N) == np_ew2(M, N, "sub")

\* One numpy operation of the update's expressions, by name.
Apply2(op, a, b) ==
    CASE op = "np_dot" -> np_dot(a, b)
      [] op = "np_matmul" -> np_matmul(a, b)
      [] op = "np_add1" -> np_add1(a, b)
      [] op = "np_sub1" -> np_sub1(a, b)
      [] op = "np_add2" -> np_add2(a, b)
      [] op = "np_sub2" -> np_sub2(a, b)

\* Evaluate r1, then r2, then apply op: the first exception propagates.
Bind2(r1, r2, op) ==
    IF r1.exc # "none" THEN r1
    ELSE IF r2.exc # "none" THEN r2
    ELSE Apply2(op, r1.a, r2.a)

\* numpy.linalg.inv: LinAlgError for a non-square or a singular matrix.
inv(M) ==
    IF Rows(M) # Cols(M) THEN Raise("LinAlgError")
    ELSE IF Det(M) = RInt(0) THEN Raise("LinAlgError")
    ELSE Ok(MatInv(M))

(***************************************************************************)
(* Program constants of the clients.                                       *)
(***************************************************************************)
\* diag(d1, .., dn) and c * I
Diag(d) == [i \in 1..Len(d) |-> [j \in 1..Len(d) |-> IF i = j THEN d[i] ELSE RInt(0)]]

Scalar(n, c) == Diag([i \in 1..n |-> c])

Zeros(n) == [i \in 1..n |-> RInt(0)]

\* The transition matrix of the tracking model: position += velocity * dt.
Transition(dt) ==
    << <<RInt(1), RInt(0), dt, RInt(0)>>,
       <<RInt(0), RInt(1), RInt(0), dt>>,
       <<RInt(0), RInt(0), RInt(1), RInt(0)>>,
       <<RInt(0), RInt(0), RInt(0), RInt(1)>> >>

(***************************************************************************)
(* The state.                                                              *)
(*   kf     the KalmanFilter object: its attributes by name                *)
(*   pc     the statement of update about to run ("idle": no call active)  *)
(*   exc    the exception the last call raised ("none": it returned)       *)
(*   frame  who called update: "client" (a script) or "draw" (the window)  *)
(*   win    the window object of the driver (None for a script)            *)
(* History, read by the properties only:                                   *)
(*   pre    kf as it was when the running (or last) update was entered     *)
(*   calls  the number of update calls made on this object                 *)
(*   stamp  per attribute, the call that assigned it last (0: __init__)    *)
(*   ctor   the arguments the object was constructed from                  *)
(***************************************************************************)
VARIABLES kf, pc, exc, frame, win, pre, calls, stamp, ctor

vars == <<kf, pc, exc, frame, win, pre, calls, stamp, ctor>>

(***************************************************************************)
(* KalmanFilter.__init__: every argument is copied, nothing is validated.  *)
(* S, K, y, measureState and control are not attributes until update sets  *)
(* them; they read None here.                                              *)
(***************************************************************************)
\* A constructor that starts previous as a copy of current.
KalmanFilter_PreviousSet(A, B, H, Q, R, cur_x, cur_P) ==
    [A |-> nd(A), B |-> nd(B), H |-> nd(H), Q |-> nd(Q), R |-> nd(R),
     last_x |-> nd(cur_x), last_P |-> nd(cur_P),
     x |-> None, P |-> None,
     cur_x |-> nd(cur_x), cur_P |-> nd(cur_P),
     S |-> None, K |-> None, y |-> None,
     measureState |-> None, control |-> None]

KalmanFilter(A, B, H, Q, R, cur_x, cur_P) ==
    [A |-> nd(A), B |-> nd(B), H |-> nd(H), Q |-> nd(Q), R |-> nd(R),
     last_x |-> None, last_P |-> None,
     x |-> None, P |-> None,
     cur_x |-> nd(cur_x), cur_P |-> nd(cur_P),
     S |-> None, K |-> None, y |-> None,
     measureState |-> None, control |-> None]

Stamp0 == [cur_x |-> 0, cur_P |-> 0, last_x |-> 0, last_P |-> 0]

(***************************************************************************)
(* KalmanFilter.update, statement by statement.  Each operator is the      *)
(* right-hand side of one assignment, evaluated on the object k.           *)
(***************************************************************************)
\* line 109: self.x = np.dot(self.A, self.cur_x) + np.dot(self.B, self.control)
Upd_x(k) == Bind2(np_dot(k.A.a, k.cur_x.a), np_dot(k.B.a, k.control.a), "np_add1")

\* Line 110 without the process noise: A P A^T.
Upd_P_NoQ(k) == Bind2(Ok(k.A.a), np_matmul(k.cur_P.a, T(k.A.a)), "np_matmul")

\* Line 110 without the transpose: A P A + Q.
Upd_P_NoTranspose(k) ==
    Bind2(Bind2(Ok(k.A.a), np_matmul(k.cur_P.a, k.A.a), "np_matmul"),
          Ok(k.Q.a), "np_add2")

\* line 110: self.P = np.matmul(self.A, np.matmul(self.cur_P, self.A.T)) + self.Q
Upd_P(k) ==
    Bind2(Bind2(Ok(k.A.a), np_matmul(k.cur_P.a, T(k.A.a)), "np_matmul"),
          Ok(k.Q.a), "np_add2")

\* line 113: self.S = np.matmul(self.H, np.matmul(self.P, self.H.T)) + self.R
Upd_S(k) ==
    Bind2(Bind2(Ok(k.H.a), np_matmul(k.P.a, T(k.H.a)), "np_matmul"),
          Ok(k.R.a), "np_add2")

\* line 114: self.K = np.matmul(self.P, np.matmul(self.H.T, inv(self.S)))
Upd_K(k) ==
    Bind2(Ok(k.P.a), Bind2(Ok(T(k.H.a)), inv(k.S.a), "np_matmul"), "np_matmul")

\* line 115: self.y = self.measureState - np.dot(self.H, self.x)
Upd_y(k) == Bind2(Ok(k.measureState.a), np_dot(k.H.a, k.x.a), "np_sub1")

\* line 117: self.cur_x = self.x + np.dot(self.K, self.y)
Upd_cur_x(k) == Bind2(Ok(k.x.a), np_dot(k.K.a, k.y.a), "np_add1")

\* lines 118-119: self.cur_P = np.matmul(np.eye(4) - np.matmul(self.K, self.H), self.P)
Upd_cur_P(k) ==
    Bind2(Bind2(Ok(np_eye(4)), np_matmul(k.K.a, k.H.a), "np_sub2"),
          Ok(k.P.a), "np_matmul")

\* One assignment "self.<field> = r": it stores the value and goes on, or the
\* exception r raised leaves update (and its caller) with the object as it is.
Assign(at, next, field, r) ==
    /\ pc = at
    /\ IF r.exc = "none"
       THEN /\ kf' = [kf EXCEPT ![field] = nd(r.a)]
            /\ pc' = next
            /\ exc' = exc
       ELSE /\ kf' = kf
            /\ pc' = "idle"
            /\ exc' = r.exc
    /\ UNCHANGED <<frame, win, pre, calls, ctor>>

\* lines 102-103: the call, and the first two assignments.
Enter(z, u, who) ==
    /\ kf' = [kf EXCEPT !.measureState = nd(z), !.control = nd(u)]
    /\ pc' = "106x"
    /\ exc' = "none"
    /\ frame' = who
    /\ pre' = kf
    /\ calls' = calls + 1
    /\ UNCHANGED <<stamp, ctor>>

\* line 106, the tuple assignment: last_x is stored first, then last_P.
Save_last_x ==
    /\ pc = "106x"
    /\ kf' = [kf EXCEPT !.last_x = kf.cur_x]
    /\ stamp' = [stamp EXCEPT !.last_x = calls]
    /\ pc' = "106P"
    /\ UNCHANGED <<exc, frame, win, pre, calls, ctor>>

\* Line 106 saving the prior covariance self.P in place of self.cur_P.
Save_last_P_Prior ==
    /\ pc = "106P"
    /\ kf' = [kf EXCEPT !.last_P = kf.P]
    /\ stamp' = [stamp EXCEPT !.last_P = calls]
    /\ pc' = "109"
    /\ UNCHANGED <<exc, frame, win, pre, calls, ctor>>

Save_last_P ==
    /\ pc = "106P"
    /\ kf' = [kf EXCEPT !.last_P = kf.cur_P]
    /\ stamp' = [stamp EXCEPT !.last_P = calls]
    /\ pc' = "109"
    /\ UNCHANGED <<exc, frame, win, pre, calls, ctor>>

Predict_x == Assign("109", "110", "x", Upd_x(kf)) /\ UNCHANGED stamp

Predict_P == Assign("110", "113", "P", Upd_P(kf)) /\ UNCHANGED stamp

Correct_S == Assign("113", "114", "S", Upd_S(kf)) /\ UNCHANGED stamp

Correct_K == Assign("114", "115", "K", Upd_K(kf)) /\ UNCHANGED stamp

Correct_y == Assign("115", "117", "y", Upd_y(kf)) /\ UNCHANGED stamp

Correct_cur_x ==
    /\ Assign("117", "118", "cur_x", Upd_cur_x(kf))
    /\ stamp' = IF pc' = "118" THEN [stamp EXCEPT !.cur_x = calls] ELSE stamp

\* The last statement: update returns to its caller.
Correct_cur_P ==
    /\ Assign("118", IF frame = "draw" THEN "381" ELSE "idle", "cur_P", Upd_cur_P(kf))
    /\ stamp' = IF exc' = "none" THEN [stamp EXCEPT !.cur_P = calls] ELSE stamp

UpdateStep ==
    \/ Save_last_x
    \/ Save_last_P
    \/ Predict_x
    \/ Predict_P
    \/ Correct_S
    \/ Correct_K
    \/ Correct_y
    \/ Correct_cur_x
    \/ Correct_cur_P

(***************************************************************************)
(* A script that uses the class: it constructs one filter and calls        *)
(* update on it.  Setups holds the constructor arguments the model         *)
(* explores, with the measurements (zs) and controls (us) of matching      *)
(* length each script feeds it.                                            *)
(***************************************************************************)
\* The test case of KalmanFilter.py (__main__).
TestCase ==
    [name |-> "main",
     A |-> Transition(<<1, 5>>), B |-> np_eye(4), H |-> np_eye(4),
     Q |-> Scalar(4, <<1, 100>>), R |-> Scalar(4, <<1, 10>>),
     cur_x |-> <<RInt(100), RInt(100), RInt(0), RInt(0)>>,
     cur_P |-> Scalar(4, RInt(0)),
     zs |-> {<<RInt(101), <<506, 5>>, <<1, 2>>, <<4, 5>>>>},
     us |-> {Zeros(4)}]

\* The one-dimensional worked example of the documentation.
OneD ==
    [name |-> "1d",
     A |-> <<<<RInt(1)>>>>, B |-> <<<<RInt(0)>>>>, H |-> <<<<RInt(1)>>>>,
     Q |-> <<<<<<1, 100>>>>>>, R |-> <<<<<<1, 10>>>>>>,
     cur_x |-> <<RInt(0)>>, cur_P |-> <<<<RInt(1)>>>>,
     zs |-> {<<RInt(1)>>},
     us |-> {<<RInt(0)>>}]

\* A tracking model over small integers, with correlated process noise.
Tracking ==
    [name |-> "track",
     A |-> Transition(RInt(1)), B |-> np_eye(4), H |-> np_eye(4),
     Q |-> << <<RInt(2), RInt(1), RInt(0), RInt(0)>>,
              <<RInt(1), RInt(2), RInt(0), RInt(0)>>,
              <<RInt(0), RInt(0), RInt(1), RInt(0)>>,
              <<RInt(0), RInt(0), RInt(0), RInt(1)>> >>,
     R |-> np_eye(4),
     cur_x |-> <<RInt(1), RInt(2), RInt(0), RInt(0)>>,
     cur_P |-> Scalar(4, RInt(0)),
     zs |-> {<<RInt(2), RInt(2), RInt(1), RInt(0)>>, <<RInt(0), RInt(3), RInt(0), RInt(1)>>},
     us |-> {<<RInt(1), RInt(0), RInt(0), RInt(0)>>}]

\* A degenerate measurement: R = 0 and H observes the positions only, so
\* S = H P H^T has two zero rows.
Degenerate ==
    [name |-> "degenerate",
     A |-> np_eye(4), B |-> np_eye(4),
     H |-> Diag(<<RInt(1), RInt(1), RInt(0), RInt(0)>>),
     Q |-> np_eye(4), R |-> Scalar(4, RInt(0)),
     cur_x |-> <<RInt(1), RInt(2), RInt(0), RInt(0)>>,
     cur_P |-> np_eye(4),
     zs |-> {<<RInt(2), RInt(2), RInt(1), RInt(0)>>},
     us |-> {<<RInt(1), RInt(0), RInt(0), RInt(0)>>}]

\* Shapes that agree on no (n, m, k): H is 2 x 3 beside a 4 x 4 A.
Mismatched ==
    [name |-> "mismatched",
     A |-> np_eye(4), B |-> np_eye(4),
     H |-> << <<RInt(1), RInt(0), RInt(0)>>, <<RInt(0), RInt(1), RInt(0)>> >>,
     Q |-> np_eye(4), R |-> np_eye(2),
     cur_x |-> <<RInt(1), RInt(2), RInt(0), RInt(0)>>,
     cur_P |-> np_eye(4),
     zs |-> {<<RInt(2), RInt(2)>>},
     us |-> {Zeros(4)}]

Setups == {TestCase, OneD, Tracking, Degenerate, Mismatched}

\* Inputs of a wrong length: a 2-vector where z or u has another length, and
\* a 3-vector where it has length 2.
WrongLength(vs) ==
    {w \in {<<RInt(1), RInt(1)>>, <<RInt(1), RInt(1), RInt(1)>>} :
        \A v \in vs : Len(w) # Len(v) /\ Len(w) # Len(v) + 1}

\* A 1-vector, which numpy broadcasts against any length.
OneLong == {<<RInt(5)>>}

(***************************************************************************)
(* Bounds of the model.                                                    *)
(***************************************************************************)
\* update calls followed on one filter object.
MaxCalls == 2

\* The recursion is followed from estimates whose denominators are at most
\* MaxDen: exact arithmetic on longer fractions leaves the integer range.
MaxDen == 100

InRange(k) ==
    /\ \A i \in 1..Len(k.cur_x.a) : k.cur_x.a[i][2] <= MaxDen
    /\ \A i \in 1..Rows(k.cur_P.a) : \A j \in 1..Cols(k.cur_P.a) :
          k.cur_P.a[i][j][2] <= MaxDen

(***************************************************************************)
(* The script's steps.                                                     *)
(***************************************************************************)
Construct(c) ==
    /\ kf = KalmanFilter(c.A, c.B, c.H, c.Q, c.R, c.cur_x, c.cur_P)
    /\ ctor = c
    /\ pc = "idle"
    /\ exc = "none"
    /\ frame = "client"
    /\ win = None
    /\ pre = kf
    /\ calls = 0
    /\ stamp = Stamp0

Init == \E c \in Setups : Construct(c)

\* model.update(measureState, control)
Call ==
    /\ pc = "idle"
    /\ frame = "client"
    /\ calls < MaxCalls
    /\ InRange(kf)
    /\ \E z \in ctor.zs \cup WrongLength(ctor.zs) \cup OneLong :
       \E u \in ctor.us \cup WrongLength(ctor.us) :
          Enter(z, u, "client")
    /\ UNCHANGED win

Next == Call \/ UpdateStep

Spec == Init /\ [][Next]_vars

(***************************************************************************)
(* The tracking window (KalmanFilterSimulatorWindow).                      *)
(*                                                                         *)
(* win holds the window's attributes by name.  Tk runs one callback at a   *)
(* time: a click, a key, a mouse motion or a frame tick is handled only    *)
(* while no other callback is running (pc = "idle").                       *)
(*                                                                         *)
(* The text of an Entry widget is "" (NoText) or the numeral of a number,  *)
(* held as that number: Python prints a float so that float() reads the    *)
(* same float back.                                                        *)
(***************************************************************************)
frame_rate == 30

\* set_frame_rate: self.frame_time = 1 / framerate
frame_time == Rat(1, frame_rate)

Ids == {"A", "B", "H", "Q", "R", "N"}

\* np.array of integer literals has an integer dtype: B, H and N in setup.
IntDtype == {"B", "H", "N"}

NoText == <<>>

\* The matrices setup builds (lines 237-282).
Default(id) ==
    CASE id = "A" -> Transition(frame_time)
      [] id = "B" -> np_eye(4)
      [] id = "H" -> np_eye(4)
      [] id = "Q" -> Scalar(4, <<1, 100>>)
      [] id = "R" -> Scalar(4, <<1, 10>>)
      [] id = "N" -> Diag(<<RInt(100), RInt(100), RInt(0), RInt(0)>>)

\* setMatrix(id, vals): every entry of the matrix shows the value's numeral.
setMatrix(entries, id, vals) ==
    [entries EXCEPT ![id] = [i \in 1..Rows(vals) |-> [j \in 1..Cols(vals) |-> vals[i][j]]]]

\* modifyMatrix(id): the window's matrix is overwritten in place from the
\* entries; an empty entry reads 1.0; an integer array truncates the float.
modifyMatrix(w, id) ==
    [w EXCEPT ![id] =
        [i \in 1..4 |-> [j \in 1..4 |->
            LET t == w.entries[id][i][j]
                f == IF t = NoText THEN RInt(1) ELSE t
            IN  IF id \in IntDtype THEN RTrunc(f) ELSE f]]]

\* The window before setup has run: the widgets helperWidget creates, with
\* empty entries; curState, measureNoise and measureState are attributes
\* only once draw has assigned them (None until then).
Widgets ==
    [entries |-> [id \in Ids |-> [i \in 1..4 |-> [j \in 1..4 |-> NoText]]],
     pauseButton |-> [text |-> "Pause", relief |-> "raised"],
     showMouseTraceButtonOn |-> FALSE,
     lifetime |-> RInt(4),
     curState |-> None, measureNoise |-> None, measureState |-> None]

\* setup (lines 228-336) on the window wd: the attributes it assigns.  The
\* widgets keep their state, but for the entries, which setMatrix resets to
\* the defaults; the attributes draw assigned stay as they are.
setup(wd) ==
    [A |-> Default("A"), B |-> Default("B"), H |-> Default("H"),
     Q |-> Default("Q"), R |-> Default("R"), N |-> Default("N"),
     Adefault |-> Default("A"), Bdefault |-> Default("B"), Hdefault |-> Default("H"),
     Qdefault |-> Default("Q"), Rdefault |-> Default("R"), Ndefault |-> Default("N"),
     mouseX |-> 0, mouseY |-> 0, premouseX |-> 0, premouseY |-> 0,
     cur_x |-> <<RInt(0), RInt(0), RInt(0), RInt(0)>>,
     cur_P |-> Scalar(4, RInt(0)),
     control |-> Zeros(4),
     curState |-> wd.curState, measureNoise |-> wd.measureNoise,
     measureState |-> wd.measureState,
     rPoints |-> <<>>, kPoints |-> <<>>, tPoints |-> <<>>,
     running |-> TRUE,
     mousepositionOn |-> wd.showMouseTraceButtonOn,
     entries |->
        setMatrix(setMatrix(setMatrix(setMatrix(setMatrix(setMatrix(wd.entries,
            "A", Default("A")), "B", Default("B")), "H", Default("H")),
            "Q", Default("Q")), "R", Default("R")), "N", Default("N")),
     pauseButton |-> wd.pauseButton,
     showMouseTraceButtonOn |-> wd.showMouseTraceButtonOn,
     lifetime |-> wd.lifetime]

\* line 325: self.kfmodel = KalmanFilter(self.A, ..., self.cur_x, self.cur_P)
kfmodel(w) == KalmanFilter(w.A, w.B, w.H, w.Q, w.R, w.cur_x, w.cur_P)

\* What the constructor was given, for the properties.
CtorOf(w) ==
    [name |-> "window", A |-> w.A, B |-> w.B, H |-> w.H, Q |-> w.Q, R |-> w.R,
     cur_x |-> w.cur_x, cur_P |-> w.cur_P, zs |-> {}, us |-> {}]

(***************************************************************************)
(* The fading points of the trails.                                        *)
(***************************************************************************)
\* Point.__init__ (lines 34-45)
Point(x, y, color, lifetime) ==
    [x |-> x, y |-> y, FADE_OUT_TIME |-> lifetime,
     duration |-> RTrunc(RMul(lifetime, RInt(frame_rate)))[1],
     maxDuration |-> RTrunc(RMul(lifetime, RInt(frame_rate)))[1],
     color |-> color]

\* ConnectedPoint.__init__ (lines 90-96)
ConnectedPoint(x, y, color, lifetime, lastx, lasty) ==
    [x |-> x, y |-> y, FADE_OUT_TIME |-> lifetime,
     duration |-> RTrunc(RMul(lifetime, RInt(frame_rate)))[1],
     maxDuration |-> RTrunc(RMul(lifetime, RInt(frame_rate)))[1],
     color |-> color, lastx |-> lastx, lasty |-> lasty]

\* Point.update (lines 56-72), which Point.draw and ConnectedPoint.draw call.
PointUpdate(p) ==
    LET d == p.duration - 1
    IN  [p EXCEPT !.duration = d,
                  !.color = [c \in 1..3 |->
                      RTrunc(RMul(RInt(p.color[c]), Rat(d, p.maxDuration)))[1]]]

isAlive(p) == p.duration > 0

\* drawPoints (lines 394-402): the live points are drawn, and as many points
\* as were found dead are popped from the left.
drawPoints(pointDeque) ==
    LET drawn == [i \in 1..Len(pointDeque) |->
                    IF isAlive(pointDeque[i]) THEN PointUpdate(pointDeque[i])
                                              ELSE pointDeque[i]]
        count_dead == Cardinality({i \in 1..Len(pointDeque) : ~isAlive(pointDeque[i])})
    IN  SubSeq(drawn, count_dead + 1, Len(drawn))

(***************************************************************************)
(* What the user and the random generator may do, in the model.            *)
(***************************************************************************)
\* Mouse positions on the canvas.
MousePositions == {<<0, 0>>, <<3, 4>>}

\* Draws of np.random.multivariate_normal([0, 0, 0, 0], self.N).
NoiseSet == {Zeros(4), <<RInt(3), RInt(-2), RInt(0), RInt(0)>>}

\* Texts the user types into an entry: <<id, row, column, text>>.
Typed ==
    {<<"Q", 1, 1, RInt(5)>>, <<"A", 1, 3, NoText>>, <<"H", 1, 1, <<1, 2>>>>}

\* Values of the fade-out slider (0.1 .. 8 in steps of 0.1).
ScaleValues == {RInt(4), <<1, 10>>}

(***************************************************************************)
(* The window's callbacks.                                                 *)
(***************************************************************************)
\* draw without its test of self.running: a paused window draws a frame.
DrawPaused_Draws ==
    /\ pc = "idle"
    /\ frame = "draw"
    /\ exc = "none"
    /\ ~win.running
    /\ calls < MaxCalls
    /\ InRange(kf)
    /\ \E noise \in NoiseSet :
          LET w1 == modifyMatrix(modifyMatrix(modifyMatrix(modifyMatrix(modifyMatrix(
                        modifyMatrix(win, "A"), "B"), "H"), "Q"), "R"), "N")
              curState == <<RInt(w1.mouseX), RInt(w1.mouseY),
                            RDiv(RInt(w1.mouseX - w1.premouseX), frame_time),
                            RDiv(RInt(w1.mouseY - w1.premouseY), frame_time)>>
              measureState == Bind2(np_dot(w1.H, curState), Ok(noise), "np_add1").a
          IN  /\ win' = [w1 EXCEPT !.curState = nd(curState),
                                   !.measureNoise = nd(noise),
                                   !.measureState = nd(measureState)]
              /\ Enter(measureState, w1.control, "draw")

\* draw, paused (lines 344-345): it returns at once.
DrawPaused ==
    /\ pc = "idle"
    /\ frame = "draw"
    /\ ~win.running
    /\ UNCHANGED vars

\* draw, lines 348-375: the matrices are read from the entries, the
\* measurement is made and kfmodel.update is entered.
DrawBegin ==
    /\ pc = "idle"
    /\ frame = "draw"
    /\ exc = "none"
    /\ win.running
    /\ calls < MaxCalls
    /\ InRange(kf)
    /\ \E noise \in NoiseSet :
          LET w1 == modifyMatrix(modifyMatrix(modifyMatrix(modifyMatrix(modifyMatrix(
                        modifyMatrix(win, "A"), "B"), "H"), "Q"), "R"), "N")
              curState == <<RInt(w1.mouseX), RInt(w1.mouseY),
                            RDiv(RInt(w1.mouseX - w1.premouseX), frame_time),
                            RDiv(RInt(w1.mouseY - w1.premouseY), frame_time)>>
              measureState == Bind2(np_dot(w1.H, curState), Ok(noise), "np_add1").a
          IN  /\ win' = [w1 EXCEPT !.curState = nd(curState),
                                   !.measureNoise = nd(noise),
                                   !.measureState = nd(measureState)]
              /\ Enter(measureState, w1.control, "draw")

\* draw, lines 381-414, after update has returned: the points are stored
\* and drawn and the mouse position is remembered.
DrawEnd ==
    /\ pc = "381"
    /\ LET r == Append(win.rPoints,
                    Point(win.measureState.a[1], win.measureState.a[2],
                          <<255, 255, 255>>, win.lifetime))
           k == Append(win.kPoints,
                    ConnectedPoint(kf.cur_x.a[1], kf.cur_x.a[2], <<0, 255, 0>>,
                                   win.lifetime, kf.last_x.a[1], kf.last_x.a[2]))
           t == IF win.mousepositionOn
                THEN Append(win.tPoints,
                        ConnectedPoint(RInt(win.mouseX), RInt(win.mouseY), <<0, 0, 255>>,
                                       win.lifetime,
                                       RInt(win.premouseX), RInt(win.premouseY)))
                ELSE win.tPoints
       IN  win' = [win EXCEPT !.rPoints = drawPoints(r),
                              !.kPoints = drawPoints(k),
                              !.tPoints = IF win.mousepositionOn THEN drawPoints(t) ELSE t,
                              !.premouseX = win.mouseX,
                              !.premouseY = win.mouseY]
    /\ pc' = "idle"
    /\ UNCHANGED <<kf, exc, frame, pre, calls, stamp, ctor>>

\* mousemotion (lines 418-422)
mousemotion ==
    /\ pc = "idle"
    /\ frame = "draw"
    /\ \E m \in MousePositions :
          win' = [win EXCEPT !.mouseX = m[1], !.mouseY = m[2]]
    /\ UNCHANGED <<kf, pc, exc, frame, pre, calls, stamp, ctor>>

\* pauseClick (lines 424-432)
pauseClick ==
    /\ pc = "idle"
    /\ frame = "draw"
    /\ win' = [win EXCEPT
                 !.running = ~win.running,
                 !.pauseButton = IF ~win.running
                                 THEN [text |-> "Pause", relief |-> "raised"]
                                 ELSE [text |-> "Resume", relief |-> "sunken"]]
    /\ UNCHANGED <<kf, pc, exc, frame, pre, calls, stamp, ctor>>

\* restartClick (lines 434-438): setup runs again and builds a new filter.
restartClick ==
    /\ pc = "idle"
    /\ frame = "draw"
    /\ win' = setup(win)
    /\ kf' = kfmodel(win')
    /\ ctor' = CtorOf(win')
    /\ pre' = kf'
    /\ calls' = 0
    /\ stamp' = Stamp0
    /\ exc' = "none"
    /\ UNCHANGED <<pc, frame>>

\* restoreClick (lines 440-452)
restoreClick ==
    /\ pc = "idle"
    /\ frame = "draw"
    /\ win' = [win EXCEPT
                 !.lifetime = RInt(4),
                 !.entries =
                    setMatrix(setMatrix(setMatrix(setMatrix(setMatrix(setMatrix(win.entries,
                        "A", win.Adefault), "B", win.Bdefault), "H", win.Hdefault),
                        "Q", win.Qdefault), "R", win.Rdefault), "N", win.Ndefault)]
    /\ UNCHANGED <<kf, pc, exc, frame, pre, calls, stamp, ctor>>

\* A click on the check button, and showMouseTrace (lines 455-462).
showMouseTrace ==
    /\ pc = "idle"
    /\ frame = "draw"
    /\ win' = [win EXCEPT !.showMouseTraceButtonOn = ~win.showMouseTraceButtonOn,
                          !.mousepositionOn = ~win.showMouseTraceButtonOn]
    /\ UNCHANGED <<kf, pc, exc, frame, pre, calls, stamp, ctor>>

\* onScale (lines 464-468): the slider was moved.
onScale ==
    /\ pc = "idle"
    /\ frame = "draw"
    /\ \E value \in ScaleValues : win' = [win EXCEPT !.lifetime = value]
    /\ UNCHANGED <<kf, pc, exc, frame, pre, calls, stamp, ctor>>

\* The user types into an entry of a matrix.
TypeEntry ==
    /\ pc = "idle"
    /\ frame = "draw"
    /\ \E e \in Typed :
          win' = [win EXCEPT !.entries[e[1]][e[2]][e[3]] = e[4]]
    /\ UNCHANGED <<kf, pc, exc, frame, pre, calls, stamp, ctor>>

\* AnimationWindow.__init__: the widgets are made, then setup runs.
WinInit ==
    /\ win = setup(Widgets)
    /\ kf = kfmodel(win)
    /\ ctor = CtorOf(win)
    /\ pc = "idle"
    /\ exc = "none"
    /\ frame = "draw"
    /\ pre = kf
    /\ calls = 0
    /\ stamp = Stamp0

WinNext ==
    \/ DrawPaused
    \/ DrawBegin
    \/ UpdateStep
    \/ DrawEnd
    \/ mousemotion
    \/ pauseClick
    \/ restartClick
    \/ restoreClick
    \/ showMouseTrace
    \/ onScale
    \/ TypeEntry

WinSpec == WinInit /\ [][WinNext]_vars

(***************************************************************************)
(* The trails over several frames.  The estimate's exact arithmetic can be *)
(* followed for a tick or two only, and a point lives for at least three   *)
(* frames; here kfmodel.update is taken as one step that returns an        *)
(* estimate from a small set, and draw is otherwise as above.              *)
(***************************************************************************)
\* The number of frames drawn since setup that the model follows.
MaxFrames == 5

\* The measurement noise of these frames: the trails do not depend on it.
TrailNoise == {Zeros(4)}

\* Estimates kfmodel.update leaves in cur_x.
Estimates == {<<RInt(3), RInt(4), RInt(0), RInt(0)>>}

\* draw, lines 348-375, with update (line 106: previous := current; line
\* 117: a new cur_x) run to its return.
DrawTick ==
    /\ pc = "idle"
    /\ frame = "draw"
    /\ win.running
    /\ calls < MaxFrames
    /\ \E noise \in TrailNoise, e \in Estimates :
          LET w1 == modifyMatrix(modifyMatrix(modifyMatrix(modifyMatrix(modifyMatrix(
                        modifyMatrix(win, "A"), "B"), "H"), "Q"), "R"), "N")
              curState == <<RInt(w1.mouseX), RInt(w1.mouseY),
                            RDiv(RInt(w1.mouseX - w1.premouseX), frame_time),
                            RDiv(RInt(w1.mouseY - w1.premouseY), frame_time)>>
              measureState == Bind2(np_dot(w1.H, curState), Ok(noise), "np_add1").a
          IN  /\ win' = [w1 EXCEPT !.curState = nd(curState),
                                   !.measureNoise = nd(noise),
                                   !.measureState = nd(measureState)]
              /\ kf' = [kf EXCEPT !.measureState = nd(measureState),
                                  !.control = nd(w1.control),
                                  !.last_x = kf.cur_x,
                                  !.last_P = kf.cur_P,
                                  !.cur_x = nd(e)]
    /\ pc' = "381"
    /\ exc' = "none"
    /\ pre' = kf
    /\ calls' = calls + 1
    /\ stamp' = [cur_x |-> calls', cur_P |-> calls',
                 last_x |-> calls', last_P |-> calls']
    /\ UNCHANGED <<frame, ctor>>

TrailNext ==
    \/ DrawPaused
    \/ DrawTick
    \/ DrawEnd
    \/ pauseClick
    \/ restartClick
    \/ showMouseTrace
    \/ onScale

TrailSpec == WinInit /\ [][TrailNext]_vars

(***************************************************************************)
(* Properties.                                                             *)
(***************************************************************************)
\* A call of update has been made on the object and none is in progress.
Done == pc = "idle" /\ calls > 0

\* The last call of update returned (it raised nothing).
Returned == Done /\ exc = "none"

\* Sums and differences of arrays of one shape, entry by entry.
VAdd(u, v) == [i \in 1..Len(u) |-> RAdd(u[i], v[i])]

VSub(u, v) == [i \in 1..Len(u) |-> RSub(u[i], v[i])]

MAdd(M, N) == [i \in 1..Rows(M) |-> [j \in 1..Cols(M) |-> RAdd(M[i][j], N[i][j])]]

MSub(M, N) == [i \in 1..Rows(M) |-> [j \in 1..Cols(M) |-> RSub(M[i][j], N[i][j])]]

IsShape(M, r, c) == Rows(M) = r /\ \A i \in 1..Rows(M) : Len(M[i]) = c

\* The arguments c of the constructor agree on (n, m, k).
ShapesAgree(c) ==
    \E n \in 1..4, m \in 1..4, k \in 1..4 :
        /\ IsShape(c.A, n, n) /\ IsShape(c.B, n, m) /\ IsShape(c.H, k, n)
        /\ IsShape(c.Q, n, n) /\ IsShape(c.R, k, k)
        /\ Len(c.cur_x) = n /\ IsShape(c.cur_P, n, n)

Symmetric(M) == Rows(M) = Cols(M) /\ M = T(M)

\* C1: after every update call that returned, (last_x, last_P) is the
\* (cur_x, cur_P) the object held when the call was entered; between two
\* calls nothing touches the object, so the previous pair after tick t+1 is
\* the current pair tick t produced.
C1_PreviousIsPriorCurrent ==
    Returned => kf.last_x = pre.cur_x /\ kf.last_P = pre.cur_P

\* The second of two calls that returned: the previous pair is the first
\* call's result, no longer the initial estimate.
C1_Witness ==
    /\ Returned
    /\ calls = 2
    /\ pre.last_x = nd(ctor.cur_x)
    /\ kf.last_x # nd(ctor.cur_x)
    /\ kf.last_x = pre.cur_x
    /\ kf.cur_x # kf.last_x

\* C3 (as claimed): a call with a measurement whose length is not k (the
\* rows of H) or a control whose length is not m (the columns of B) raises,
\* and leaves cur_x, cur_P, last_x and last_P as they were.
C3_WrongLengthRejected ==
    (Done /\ (\/ Len(kf.measureState.a) # Rows(kf.H.a)
              \/ Len(kf.control.a) # Cols(kf.B.a)))
    => /\ exc # "none"
       /\ kf.cur_x = pre.cur_x /\ kf.cur_P = pre.cur_P
       /\ kf.last_x = pre.last_x /\ kf.last_P = pre.last_P

\* C4 (as claimed): when inv(S) fails on a singular S, the tick is still
\* completed: previous holds the pair from before the call and current is
\* the prediction (x, P).
C4_SingularDegrades ==
    (Done /\ exc = "LinAlgError")
    => /\ kf.last_x = pre.cur_x /\ kf.last_P = pre.cur_P
       /\ kf.cur_x = kf.x /\ kf.cur_P = kf.P

\* C5 (as claimed, read where a caller can look: no call in progress): the
\* state and the covariance of current were assigned by the same call, and
\* so were those of previous.
C5_PairsAtomic ==
    pc = "idle" => stamp.cur_x = stamp.cur_P /\ stamp.last_x = stamp.last_P

\* C6 (as claimed): an estimator exists only for arguments whose shapes
\* agree on one (n, m, k).
C6_ConstructionValidates ==
    kf.cur_x.tag = "ndarray" => ShapesAgree(ctor)

\* C7: for the 4-dimensional model with inputs of length 4 and S invertible,
\* update returns and leaves the reference recursion's result, computed from
\* the pair (x, P) held on entry: x_pred = A x + B u, P_pred = A P A^T + Q,
\* S = H P_pred H^T + R, K S = P_pred H^T, y = z - H x_pred,
\* cur_x = x_pred + K y, cur_P = (I - K H) P_pred.
C7_ReferenceRecursion ==
    LET A == pre.A.a  B == pre.B.a  H == pre.H.a  Q == pre.Q.a  R == pre.R.a
        z == kf.measureState.a
        u == kf.control.a
        x_pred == VAdd(MatVec(A, pre.cur_x.a), MatVec(B, u))
        P_pred == MAdd(MatMul(A, MatMul(pre.cur_P.a, T(A))), Q)
        S == MAdd(MatMul(H, MatMul(P_pred, T(H))), R)
        K == kf.K.a
        y == VSub(z, MatVec(H, x_pred))
    IN  (/\ Done
         /\ IsShape(A, 4, 4) /\ IsShape(B, 4, 4) /\ IsShape(H, 4, 4)
         /\ IsShape(Q, 4, 4) /\ IsShape(R, 4, 4)
         /\ Len(pre.cur_x.a) = 4 /\ IsShape(pre.cur_P.a, 4, 4)
         /\ Len(z) = 4 /\ Len(u) = 4
         /\ Det(S) # RInt(0))
        => /\ exc = "none"
           /\ kf.x.a = x_pred /\ kf.P.a = P_pred /\ kf.S.a = S
           /\ MatMul(K, S) = MatMul(P_pred, T(H))
           /\ kf.y.a = y
           /\ kf.cur_x.a = VAdd(x_pred, MatVec(K, y))
           /\ kf.cur_P.a = MatMul(MSub(np_eye(4), MatMul(K, H)), P_pred)

\* The test case of KalmanFilter.py after its update: K = I/11, and the
\* closed-form posterior.
C7_Witness ==
    /\ Returned
    /\ ctor = TestCase
    /\ kf.K.a = Scalar(4, <<1, 11>>)
    /\ kf.cur_x.a = <<<<1101, 11>>, <<5506, 55>>, <<1, 22>>, <<4, 55>>>>
    /\ kf.cur_P.a = Scalar(4, <<1, 110>>)

\* C8 (as claimed): the one-dimensional example completes its update with
\* P_pred = 1.01, S = 1.11, K = 101/111 (0.9099), cur_x = 101/111 and
\* cur_P = 101/1110 (0.0909), a 1 x 1 matrix.
C8_OneDimensionalExample ==
    (/\ Done
     /\ ctor = OneD
     /\ calls = 1
     /\ kf.measureState.a = <<RInt(1)>>
     /\ kf.control.a = <<RInt(0)>>)
    => /\ exc = "none"
       /\ kf.P.a = <<<<<<101, 100>>>>>>
       /\ kf.S.a = <<<<<<111, 100>>>>>>
       /\ kf.K.a = <<<<<<101, 111>>>>>>
       /\ kf.cur_x.a = <<<<101, 111>>>>
       /\ kf.cur_P.a = <<<<<<101, 1110>>>>>>

\* C9: constructed with symmetric Q, R and P0, the filter's cur_P is
\* symmetric in every state, and so after every call of update (whether
\* Q and R are positive semi-definite plays no part).
C9_CovarianceSymmetric ==
    (Symmetric(ctor.Q) /\ Symmetric(ctor.R) /\ Symmetric(ctor.cur_P))
    => Symmetric(kf.cur_P.a)

\* Two updates have returned and left a covariance with non-zero entries
\* off the diagonal.
C9_Witness ==
    /\ Returned
    /\ calls = 2
    /\ Symmetric(ctor.Q) /\ Symmetric(ctor.R) /\ Symmetric(ctor.cur_P)
    /\ kf.cur_P # pre.cur_P
    /\ pre.cur_P # nd(ctor.cur_P)
    /\ kf.cur_P.a[1][3] # RInt(0)


C10_ReconfigurationTakesEffect ==
    pc = "381"
    => /\ kf.x.a = VAdd(MatVec(win.A, pre.cur_x.a), MatVec(win.B, kf.control.a))
       /\ kf.P.a = MAdd(MatMul(win.A, MatMul(pre.cur_P.a, T(win.A))), win.Q)
       /\ kf.S.a = MAdd(MatMul(win.H, MatMul(kf.P.a, T(win.H))), win.R)


\* One run of drawPoints took a deque from `before` (the new point not yet
\* appended) to `after`: no dead point is left, and the points popped from
\* the left were dead.
Swept(before, after) ==
    /\ \A i \in 1..Len(after) : isAlive(after[i])
    /\ \A i \in 1..(Len(before) + 1 - Len(after)) :
          i <= Len(before) => ~isAlive(before[i])

\* C11 (as claimed): after drawPoints has run on a trail deque, the deque
\* holds no dead point and every point it removed was dead, whatever the
\* lifetimes the points were appended with.
C11_DrawPointsSweepsTheDead ==
    [][(pc = "381" /\ pc' = "idle")
          => /\ Swept(win.rPoints, win'.rPoints)
             /\ Swept(win.kPoints, win'.kPoints)
             /\ (win.mousepositionOn => Swept(win.tPoints, win'.tPoints))]_vars


\* The estimate pairs, the three trails and the remembered mouse position.
Frozen ==
    <<kf.cur_x, kf.cur_P, kf.last_x, kf.last_P,
      win.rPoints, win.kPoints, win.tPoints, win.premouseX, win.premouseY>>

\* C12: while the animation is paused, no step (a draw call among them)
\* changes the estimate pairs, the trails or the remembered mouse position,
\* and the pauseClick that resumes leaves them as they were.
C12_PausedDrawIsNoOp ==
    [][/\ (~win.running /\ ~win'.running) => Frozen' = Frozen
       /\ (~win.running /\ win'.running /\ win'.pauseButton # win.pauseButton)
             => Frozen' = Frozen]_vars

\* Paused after a frame was drawn: there is an estimate and a trail to keep.
C12_Witness ==
    /\ ~win.running
    /\ calls = 1
    /\ kf.last_x # None
    /\ Len(win.kPoints) = 1


\* C13 (as claimed): the pause button reads "Resume", sunken, exactly when
\* running is False, and "Pause", raised, exactly when running is True.
C13_PauseLabelAgrees ==
    /\ win.running <=> win.pauseButton = [text |-> "Pause", relief |-> "raised"]
    /\ ~win.running <=> win.pauseButton = [text |-> "Resume", relief |-> "sunken"]

=============================================================================
